---- MODULE Spec2Model ----
(***************************************************************************)
(* The chat proxy of cube_chat: one POST /api/chat turn.  The backend      *)
(* reads the upstream line-delimited JSON stream (sendToCube), gates it on *)
(* the "__cutoff__" marker, merges side-channel fields, and re-emits       *)
(* delta / event / done envelopes downstream (the onDelta callback and the *)
(* tail of the route handler).                                             *)
(*                                                                         *)
(* JS values.  Strings are TLA+ strings ("" is the empty string).  The     *)
(* opaque payloads (toolCall, chart specs, ...) are tokens such as "X";    *)
(* Null stands for a falsy JSON value (null).  An object is a function     *)
(* from its keys; an absent field is a key outside its DOMAIN.  A value    *)
(* that may be undefined is a record [def, obj].                           *)
(*                                                                         *)
(* Text.  The upstream body is a sequence of symbols: NL is "\n", SP is a  *)
(* whitespace character, BAD is text that is not valid JSON, and every     *)
(* other symbol is the complete JSON text of the envelope JsonText gives   *)
(* for it.  Symbols are whole characters: the streaming TextDecoder never  *)
(* hands out a partial one.                                                *)
(*                                                                         *)
(* Specifications.  Spec, SpecMerge and SpecEmit run one turn against a    *)
(* free-running upstream with different line vocabularies.  SpecAny adds   *)
(* the failures (missing configuration, upstream refusal, broken read,     *)
(* consumer gone, a conversation of another user).  SpecFramer fixes the   *)
(* upstream body beforehand and lets the reads cut it anywhere.  SpecTwo   *)
(* runs two requests side by side.  SpecClient feeds the reducer of the    *)
(* browser (App.tsx, handleSend) the lines of a downstream stream, and     *)
(* SpecClientUI lets the user load or clear a conversation meanwhile.      *)
(* SpecRepo runs the functions of repo.ts and SpecToken the token cache of *)
(* cubeClient.ts, each on its own.                                         *)
(***************************************************************************)
EXTENDS Integers, Sequences, FiniteSets, TLC

\* ----------------------------------------------------------------- bounds
\* Symbols the upstream may have written that the proxy has not processed yet.
MaxWire == 4
\* Envelopes accepted so far after which the upstream writes no further line.
MaxAccepted == 2

\* ----------------------------------------------------------------- values
NL == "\n"
SP == " "
BAD == "{oops"
Null == "null"
JsTrue == "true"
JsFalse == "false"
CUTOFF == "__cutoff__"
NoResponse == "No response"

Undefined == [def |-> FALSE, obj |-> <<>>]
Obj(o) == [def |-> TRUE, obj |-> o]

Has(o, k) == k \in DOMAIN o
\* JS truthiness of a string or token value.
Truthy(v) == v # "" /\ v # Null

\* The JSON text each envelope symbol stands for.
JsonText ==
  [ cutT  |-> [id |-> CUTOFF, state |-> [isStreaming |-> JsTrue]],
    cutF  |-> [id |-> CUTOFF, state |-> [isStreaming |-> JsFalse]],
    cutN  |-> [id |-> CUTOFF],
    cut1  |-> [id |-> CUTOFF, state |-> [isStreaming |-> "1"]],
    cutU  |-> [id |-> CUTOFF, role |-> "user", state |-> [isStreaming |-> JsTrue]],
    usr   |-> [role |-> "user", content |-> "hi"],
    usrT  |-> [role |-> "user", content |-> "hi", toolCall |-> "U"],
    asstA |-> [role |-> "assistant", content |-> "a"],
    asstAB |-> [role |-> "assistant", content |-> "ab"],
    asstT |-> [role |-> "assistant", content |-> "a", thinking |-> "t"],
    thFoo |-> [thinking |-> "foo"],
    thBar |-> [thinking |-> "bar"],
    tcX   |-> [toolCall |-> "X"],
    tcY   |-> [toolCall |-> "Y", toolCallResult |-> "R",
               sqlToolCall |-> "S", sqlToolCallResult |-> "T"],
    tcNull |-> [toolCall |-> Null],
    m1    |-> [metadata |-> [k |-> "1"]],
    m2    |-> [metadata |-> [k |-> "2", toolCall |-> "Z"]],
    chart |-> [chartType |-> "bar", visualization |-> "V", query |-> "Q"] ]

EnvelopeSymbols == DOMAIN JsonText

\* ------------------------------------------------------------------ state
VARIABLES
  wire,             \* response body written by the upstream, not yet read
  closed,           \* the upstream has ended the body
  pc,               \* position of the route handler / sendToCube
  buffer,           \* sendToCube: pending fragment
  lines,            \* sendToCube: lines of the current chunk still to process
  streamingStarted, \* sendToCube: the replay gate (TRUE = STREAMING)
  assistantText,    \* sendToCube: accumulated assistant text
  lastMetadata,     \* sendToCube: aggregated metadata
  accepted,         \* history: the envelopes handed to mergeMeta, in order
  assistantAccum,   \* route handler: text already sent as deltas
  written,          \* res.write: the downstream envelopes, in order
  messages,         \* rows of the messages table of this conversation
  configured,       \* CUBE_API_BASE, CUBE_CHAT_PATH and CUBE_API_KEY are all set
  owner,            \* user_id of the conversation the request appends to
  headersSent,      \* res.flushHeaders() has sent the 200 status line
  fetched,          \* sendToCube has issued the upstream request
  error,            \* the error thrown out of the route handler ("" = none)
  outcome,          \* how the response ended: "open", "ended", "error500", "destroyed"
  connected,        \* the consumer still holds the downstream connection
  lostWrite,        \* history: a res.write was made after the consumer had gone
  everStreaming,    \* history: the gate has been STREAMING in this turn
  body,             \* a fixed upstream body still to be sent (<<>>: free-running)
  framed,           \* history, for a fixed body: the lines handed to the decoder
  peer,             \* a second chat request in flight: its own closure's state
  client,           \* the browser: App's state and its reader of the stream
  repo,             \* the tables of repo.ts, used on their own
  tokens            \* cubeClient.ts: cachedToken and the tokens table

vars == <<wire, closed, pc, buffer, lines, streamingStarted, assistantText,
          lastMetadata, accepted, assistantAccum, written, messages,
          configured, owner, headersSent, fetched, error, outcome, connected,
          lostWrite, everStreaming, body, framed, peer, client, repo, tokens>>

upstreamVars == <<wire, closed>>
cubeVars == <<buffer, lines, streamingStarted, assistantText, lastMetadata, accepted>>
routeVars == <<assistantAccum, written, messages>>
\* What no step of a turn of the proxy changes.
envVars == <<configured, owner, client, repo, tokens>>
resVars == <<headersSent, fetched, error, outcome, connected>>
histVars == <<lostWrite, everStreaming, framed>>

\* ---------------------------------------------------------- line framing
\* buffer.split("\n"): the pieces between newlines, at least one piece.
RECURSIVE SplitFrom(_, _, _)
SplitFrom(s, i, cur) ==
  IF i > Len(s) THEN <<cur>>
  ELSE IF s[i] = NL THEN <<cur>> \o SplitFrom(s, i + 1, <<>>)
  ELSE SplitFrom(s, i + 1, Append(cur, s[i]))

Split(s) == SplitFrom(s, 1, <<>>)

\* lines.pop(): all pieces but the last.
ButLast(s) == SubSeq(s, 1, Len(s) - 1)
Last(s) == s[Len(s)]

NotSP(c) == c # SP
\* line.trim(): the text without surrounding whitespace (whitespace between
\* JSON tokens does not matter to JSON.parse either).
Trim(line) == SelectSeq(line, NotSP)
IsBlank(line) == Trim(line) = <<>>

\* JSON.parse succeeds on exactly one JSON text.
Parses(line) == Len(Trim(line)) = 1 /\ Trim(line)[1] \in EnvelopeSymbols
Parse(line) == JsonText[Trim(line)[1]]

\* ------------------------------------------------------------- mergeMeta
\* Object.assign(o, src)
Assign(o, src) ==
  [k \in DOMAIN o \cup DOMAIN src |-> IF k \in DOMAIN src THEN src[k] ELSE o[k]]

\* SetIfTruthy testing presence instead of truthiness: if ("k" in msg) out.k = msg.k
SetIfPresent(o, msg, k) ==
  IF Has(msg, k) THEN Assign(o, k :> msg[k]) ELSE o

\* if (msg.k) out.k = msg.k
SetIfTruthy(o, msg, k) ==
  IF Has(msg, k) /\ Truthy(msg[k]) THEN Assign(o, k :> msg[k]) ELSE o

\* mergeMeta starting from an empty object instead of a copy of base.
mergeMeta_NoSpread(base, msg) ==
  LET out1 == IF Has(msg, "metadata") THEN Assign(<<>>, msg.metadata) ELSE <<>>
      out2 == SetIfTruthy(out1, msg, "thinking")
      out3 == SetIfTruthy(out2, msg, "toolCall")
      out4 == SetIfTruthy(out3, msg, "toolCallResult")
      out5 == SetIfTruthy(out4, msg, "sqlToolCall")
  IN  SetIfTruthy(out5, msg, "sqlToolCallResult")

\* const out = { ...(base || {}) }; Object.assign(out, msg.metadata); the
\* five channels, each when truthy.
mergeMeta(base, msg) ==
  LET out0 == IF base.def THEN base.obj ELSE <<>>
      out1 == IF Has(msg, "metadata") THEN Assign(out0, msg.metadata) ELSE out0
      out2 == SetIfTruthy(out1, msg, "thinking")
      out3 == SetIfTruthy(out2, msg, "toolCall")
      out4 == SetIfTruthy(out3, msg, "toolCallResult")
      out5 == SetIfTruthy(out4, msg, "sqlToolCall")
  IN  SetIfTruthy(out5, msg, "sqlToolCallResult")

\* ---------------------------------------------------------------- onDelta
\* chunkStr.startsWith(prefix)
StartsWith(s, prefix) ==
  Len(prefix) <= Len(s) /\ SubSeq(s, 1, Len(prefix)) = prefix
\* chunkStr.slice(n)
Slice(s, n) == SubSeq(s, n + 1, Len(s))

SideChannels ==
  <<"thinking", "toolCall", "toolCallResult", "sqlToolCall", "sqlToolCallResult",
    "chartType", "visualization", "query">>

\* raw.thinking || raw.toolCall || ... || raw.query
HasSideChannel(raw) ==
  \E i \in 1..Len(SideChannels) :
    Has(raw, SideChannels[i]) /\ Truthy(raw[SideChannels[i]])

Delta(content) == [type |-> "delta", content |-> content]
Event(raw) == [type |-> "event", raw |-> raw]

\* The callback the route handler passes to sendToCube, as a function of the
\* handler's state st = [accum, out]: the state after onDelta(chunk, raw).
onDelta(st, chunk, raw) ==
  LET delta == IF StartsWith(chunk, st.accum)
               THEN Slice(chunk, Len(st.accum)) ELSE chunk
      s1 == IF delta # ""
            THEN [accum |-> st.accum \o delta, out |-> Append(st.out, Delta(delta))]
            ELSE st
  IN  IF HasSideChannel(raw) THEN [s1 EXCEPT !.out = Append(@, Event(raw))] ELSE s1

\* ------------------------------------------------------------- sendToCube
IsCutoff(msg) == Has(msg, "id") /\ msg.id = CUTOFF
IsUser(msg) == Has(msg, "role") /\ msg.role = "user"
\* msg.state?.isStreaming === true
IsStreamingTrue(msg) ==
  Has(msg, "state") /\ Has(msg.state, "isStreaming") /\ msg.state.isStreaming = JsTrue
\* msg.role === "assistant" && typeof msg.content === "string"
HasAssistantContent(msg) ==
  Has(msg, "role") /\ msg.role = "assistant" /\ Has(msg, "content")

\* The sendToCube locals and the callback's state that one line can change.
Locals ==
  [gate |-> streamingStarted, text |-> assistantText, meta |-> lastMetadata,
   acc |-> accepted, cb |-> [accum |-> assistantAccum, out |-> written]]

\* lastMetadata = mergeMeta(...); onDelta("", msg); if assistant content:
\* assistantText += content; onDelta(content, msg)
Accept(l, msg) ==
  LET cb1 == onDelta(l.cb, "", msg)
      l1 == [l EXCEPT !.meta = Obj(mergeMeta(l.meta, msg)),
                      !.acc = Append(@, msg),
                      !.cb = cb1]
  IN  IF HasAssistantContent(msg)
      THEN [l1 EXCEPT !.text = @ \o msg.content,
                      !.cb = onDelta(cb1, msg.content, msg)]
      ELSE l1

\* LoopLine without its test of the role.
LoopLine_NoUserTest(l, line) ==
  IF IsBlank(line) THEN l
  ELSE IF ~Parses(line) THEN l
  ELSE LET msg == Parse(line) IN
       IF IsCutoff(msg) THEN [l EXCEPT !.gate = IsStreamingTrue(msg)]
       ELSE IF ~l.gate THEN l
       ELSE Accept(l, msg)

LoopLine_ParseErrorClosesGate(l, line) ==
  IF IsBlank(line) THEN l
  ELSE IF ~Parses(line) THEN [l EXCEPT !.gate = FALSE]
  ELSE LET msg == Parse(line) IN
       IF IsUser(msg) THEN l
       ELSE IF IsCutoff(msg) THEN [l EXCEPT !.gate = IsStreamingTrue(msg)]
       ELSE IF ~l.gate THEN l
       ELSE Accept(l, msg)

\* The body of the for loop over the complete lines of a chunk.
LoopLine(l, line) ==
  IF IsBlank(line) THEN l
  ELSE IF ~Parses(line) THEN l
  ELSE LET msg == Parse(line) IN
       IF IsUser(msg) THEN l
       ELSE IF IsCutoff(msg) THEN [l EXCEPT !.gate = IsStreamingTrue(msg)]
       ELSE IF ~l.gate THEN l
       ELSE Accept(l, msg)

\* The handling of the fragment left in the buffer when the stream ends.
TrailingLine(l, line) ==
  IF IsBlank(line) THEN l
  ELSE IF ~Parses(line) THEN l
  ELSE LET msg == Parse(line)
           l1 == IF IsCutoff(msg) THEN [l EXCEPT !.gate = IsStreamingTrue(msg)] ELSE l
       IN  IF l1.gate /\ ~IsUser(msg) THEN Accept(l1, msg) ELSE l1

SetLocals(l) ==
  /\ streamingStarted' = l.gate
  /\ assistantText' = l.text
  /\ lastMetadata' = l.meta
  /\ accepted' = l.acc
  /\ assistantAccum' = l.cb.accum
  /\ written' = l.cb.out
  /\ everStreaming' = (everStreaming \/ l.gate)
  /\ lostWrite' = (lostWrite \/ (~connected /\ l.cb.out # written))

\* The upstream body, when the run fixes it beforehand.
NoBody == [fixed |-> FALSE, text |-> <<>>]
Body(text) == [fixed |-> TRUE, text |-> text]

\* if (!line.trim()) continue / if (buffer.trim()): the line reaches the decoder.
Surface(line) ==
  framed' = IF body.fixed /\ ~IsBlank(line) THEN Append(framed, line) ELSE framed

\* ---------------------------------------------------------------- storage
ConvoId == "c1"
UserId == "u1"
Users == {"u1", "u2"}
JsNull == [kind |-> "null"]
JsObject(o) == [kind |-> "object", obj |-> o]

\* msg.metadata ?? null, as the JSON text JSON.stringify gives for it.
Stringify(v) == [json |-> v]
JsonParse(text) == text.json

\* addMessage: one more row; the metadata column is JSON.stringify(metadata ?? null).
addMessage(rows, role, content, timestamp, metadata) ==
  Append(rows, [role |-> role, content |-> content, timestamp |-> timestamp,
                metadata |-> Stringify(IF metadata.def THEN JsObject(metadata.obj)
                                       ELSE JsNull)])

\* The row of listMessages' result for one table row: the metadata column is
\* a non-empty text, so it is always parsed.
RowToMessage(r) ==
  [role |-> r.role, content |-> r.content, timestamp |-> r.timestamp,
   metadata |-> JsonParse(r.metadata)]

\* ORDER BY timestamp ASC: the orders of the rows SQL allows (rows of equal
\* timestamp come in an order SQL leaves open).
Orderings(rows) ==
  { p \in [1..Len(rows) -> 1..Len(rows)] :
      /\ \A i, j \in 1..Len(rows) : i # j => p[i] # p[j]
      /\ \A i, j \in 1..Len(rows) : i < j => rows[p[i]].timestamp <= rows[p[j]].timestamp }

\* listMessages for the owner of the conversation, under one such order.
listMessages(rows, p) == [i \in 1..Len(rows) |-> RowToMessage(rows[p[i]])]

\* What the route handler reloads for done: listMessages(convoId, userId) ?? [],
\* and listMessages returns null for a conversation of another user.
Reload(rows, p) == IF owner = UserId THEN listMessages(rows, p) ELSE <<>>

\* ----------------------------------------------------------- the failures
NotConfigured == "Cube API not configured"
HttpError == "Cube API HTTP"
ReadError == "read failed"

\* The error middleware, reached through asyncHandler: res.status(500).json(..)
\* answers when no header has gone out; once the headers are flushed it cannot,
\* and the connection is torn down.
ErrorMiddleware(err, flushed) ==
  /\ error' = err
  /\ outcome' = IF flushed THEN "destroyed" ELSE "error500"
  /\ pc' = "failed"

\* ------------------------------------------------------------ the request
\* POST /api/chat up to the call of sendToCube: the conversation is created,
\* the user message stored, and sendToCube's locals are initialised.
ChatRequest ==
  /\ pc = "idle"
  /\ configured
  /\ headersSent' = TRUE
  /\ messages' = addMessage(messages, "user", "hi", 0, Undefined)
  /\ fetched' = TRUE
  /\ pc' = "fetch"
  /\ UNCHANGED <<upstreamVars, cubeVars, assistantAccum, written>>
  /\ UNCHANGED <<envVars, error, outcome, connected, histVars, body, peer>>

\* The same request when the configuration is incomplete: sendToCube throws
\* at its first statement, after the handler has flushed the headers and
\* stored the user message.
ChatRequestUnconfigured ==
  /\ pc = "idle"
  /\ ~configured
  /\ headersSent' = TRUE
  /\ messages' = addMessage(messages, "user", "hi", 0, Undefined)
  /\ ErrorMiddleware(NotConfigured, TRUE)
  /\ UNCHANGED <<upstreamVars, cubeVars, assistantAccum, written>>
  /\ UNCHANGED <<envVars, fetched, connected, histVars, body, peer>>

\* fetch resolves with res.ok and a body.
UpstreamRespond ==
  /\ pc = "fetch"
  /\ pc' = "read"
  /\ UNCHANGED <<upstreamVars, cubeVars, routeVars>>
  /\ UNCHANGED <<envVars, resVars, histVars, body, peer>>

\* fetch resolves with a non-success status or without a body: sendToCube
\* throws.
UpstreamRefuse ==
  /\ pc = "fetch"
  /\ ErrorMiddleware(HttpError, headersSent)
  /\ UNCHANGED <<upstreamVars, cubeVars, routeVars>>
  /\ UNCHANGED <<envVars, headersSent, fetched, connected, histVars, body, peer>>

\* reader.read() rejects (the upstream connection breaks before the body has
\* ended): nothing catches it inside sendToCube.
ReadFail ==
  /\ pc = "read"
  /\ ~closed
  /\ ErrorMiddleware(ReadError, headersSent)
  /\ UNCHANGED <<upstreamVars, cubeVars, routeVars>>
  /\ UNCHANGED <<envVars, headersSent, fetched, connected, histVars, body, peer>>

\* The consumer goes away while the turn is in progress. Nothing in the
\* handler listens for it.
Disconnect ==
  /\ pc \in {"fetch", "read", "loop", "returned"}
  /\ connected
  /\ connected' = FALSE
  /\ UNCHANGED <<upstreamVars, pc, cubeVars, routeVars>>
  /\ UNCHANGED <<envVars, headersSent, fetched, error, outcome, histVars, body, peer>>

RECURSIVE TextLen(_)
TextLen(ls) == IF ls = <<>> THEN 0 ELSE Len(Head(ls)) + 1 + TextLen(Tail(ls))
\* The symbols the upstream has written that sendToCube has not processed yet.
Unprocessed == Len(wire) + Len(buffer) + TextLen(lines)

\* The upstream writes one line and its newline.
UpstreamWrite(text) ==
  /\ pc \in {"read", "loop"}
  /\ ~closed
  /\ Len(accepted) < MaxAccepted
  /\ Unprocessed + Len(text) + 1 <= MaxWire
  /\ wire' = wire \o text \o <<NL>>
  /\ UNCHANGED <<closed, pc, cubeVars, routeVars>>
  /\ UNCHANGED <<envVars, resVars, histVars, body, peer>>

\* The upstream ends the body, after a last fragment without a newline (text
\* may be empty: a body that ends with its last newline).
UpstreamEnd(text) ==
  /\ pc \in {"read", "loop"}
  /\ ~closed
  /\ Unprocessed + Len(text) <= MaxWire
  /\ wire' = wire \o text
  /\ closed' = TRUE
  /\ UNCHANGED <<pc, cubeVars, routeVars>>
  /\ UNCHANGED <<envVars, resVars, histVars, body, peer>>

\* A fixed body: the upstream sends all of it and ends; the reads cut it.
UpstreamBody ==
  /\ pc = "read"
  /\ body.fixed
  /\ ~closed
  /\ wire' = body.text
  /\ closed' = TRUE
  /\ UNCHANGED <<pc, cubeVars, routeVars>>
  /\ UNCHANGED <<envVars, resVars, histVars, body, peer>>

ReadChunk_NoCarry(k) ==
  /\ pc = "read"
  /\ k \in 1..Len(wire)
  /\ LET pieces == Split(SubSeq(wire, 1, k)) IN
       /\ lines' = ButLast(pieces)
       /\ buffer' = Last(pieces)
       /\ pc' = IF Len(pieces) > 1 THEN "loop" ELSE "read"
  /\ wire' = SubSeq(wire, k + 1, Len(wire))
  /\ UNCHANGED <<closed, streamingStarted, assistantText, lastMetadata, accepted,
                 routeVars>>
  /\ UNCHANGED <<envVars, resVars, histVars, body, peer>>

\* reader.read() yields the next k symbols: buffer += decoded; split; pop.
ReadChunk(k) ==
  /\ pc = "read"
  /\ k \in 1..Len(wire)
  /\ LET pieces == Split(buffer \o SubSeq(wire, 1, k)) IN
       /\ lines' = ButLast(pieces)
       /\ buffer' = Last(pieces)
       /\ pc' = IF Len(pieces) > 1 THEN "loop" ELSE "read"
  /\ wire' = SubSeq(wire, k + 1, Len(wire))
  /\ UNCHANGED <<closed, streamingStarted, assistantText, lastMetadata, accepted,
                 routeVars>>
  /\ UNCHANGED <<envVars, resVars, histVars, body, peer>>

\* One iteration of the for loop over the lines of the chunk.
ProcessLine ==
  /\ pc = "loop"
  /\ SetLocals(LoopLine(Locals, Head(lines)))
  /\ lines' = Tail(lines)
  /\ pc' = IF Tail(lines) = <<>> THEN "read" ELSE "loop"
  /\ Surface(Head(lines))
  /\ UNCHANGED <<upstreamVars, buffer, messages>>
  /\ UNCHANGED <<envVars, resVars, body, peer>>

\* reader.read() yields done: the trailing fragment is handled and sendToCube
\* returns.
ReadDone ==
  /\ pc = "read"
  /\ wire = <<>>
  /\ closed
  /\ SetLocals(TrailingLine(Locals, buffer))
  /\ pc' = "returned"
  /\ Surface(buffer)
  /\ UNCHANGED <<upstreamVars, buffer, lines, messages>>
  /\ UNCHANGED <<envVars, resVars, body, peer>>

CubeMessage_NoDefault == assistantText

\* sendToCube's result: { message: assistantText || "No response", metadata }.
CubeMessage == IF assistantText # "" THEN assistantText ELSE NoResponse

Done(msgs) == [type |-> "done", conversationId |-> ConvoId, messages |-> msgs]

Finish_NoDone(t) ==
  /\ pc = "returned"
  /\ messages' = addMessage(messages, "assistant", CubeMessage, t, lastMetadata)
  /\ outcome' = "ended"
  /\ pc' = "done"
  /\ UNCHANGED <<upstreamVars, cubeVars, assistantAccum, written>>
  /\ UNCHANGED <<envVars, headersSent, fetched, error, connected, histVars,
                 body, peer>>

\* The route handler after sendToCube: the assistant message is stored at a
\* time not before the user message's, the list reloaded, done written and
\* the response ended.
Finish(t) ==
  /\ pc = "returned"
  /\ LET rows == addMessage(messages, "assistant", CubeMessage, t, lastMetadata) IN
       /\ messages' = rows
       /\ \E p \in Orderings(rows) :
            written' = Append(written, Done(Reload(rows, p)))
  /\ lostWrite' = (lostWrite \/ ~connected)
  /\ outcome' = "ended"
  /\ pc' = "done"
  /\ UNCHANGED <<upstreamVars, cubeVars, assistantAccum>>
  /\ UNCHANGED <<envVars, headersSent, fetched, error, connected, everStreaming,
                 framed, body, peer>>

\* ------------------------------------------------------ a second request
\* Every call of sendToCube and of the route handler has its own locals
\* (let assistantText, lastMetadata, buffer, streamingStarted; let
\* assistantAccum): the second request keeps them in its own record.
InitialLocals ==
  [gate |-> FALSE, text |-> "", meta |-> Undefined, acc |-> <<>>,
   cb |-> [accum |-> "", out |-> <<>>]]

PeerIdle ==
  [pc |-> "idle", wire |-> <<>>, buffer |-> <<>>, lines |-> <<>>,
   l |-> InitialLocals, body |-> <<>>]

\* The second request is made and its upstream answers with its whole body.
PeerRequest ==
  /\ peer.pc = "idle"
  /\ configured
  /\ peer' = [peer EXCEPT !.pc = "read", !.wire = peer.body]
  /\ UNCHANGED <<upstreamVars, pc, cubeVars, routeVars, envVars, resVars,
                 histVars, body>>

\* Its reader.read() yields the next k symbols.
PeerRead_ModuleBuffer(k) ==
  /\ peer.pc = "read"
  /\ k \in 1..Len(peer.wire)
  /\ LET pieces == Split(buffer \o SubSeq(peer.wire, 1, k)) IN
       /\ buffer' = Last(pieces)
       /\ peer' = [peer EXCEPT !.lines = ButLast(pieces),
                               !.pc = IF Len(pieces) > 1 THEN "loop" ELSE "read",
                               !.wire = SubSeq(peer.wire, k + 1, Len(peer.wire))]
  /\ UNCHANGED <<upstreamVars, pc, lines, streamingStarted, assistantText,
                 lastMetadata, accepted, routeVars, envVars, resVars, histVars, body>>

PeerRead(k) ==
  /\ peer.pc = "read"
  /\ k \in 1..Len(peer.wire)
  /\ LET pieces == Split(peer.buffer \o SubSeq(peer.wire, 1, k)) IN
       peer' = [peer EXCEPT !.lines = ButLast(pieces),
                            !.buffer = Last(pieces),
                            !.pc = IF Len(pieces) > 1 THEN "loop" ELSE "read",
                            !.wire = SubSeq(peer.wire, k + 1, Len(peer.wire))]
  /\ UNCHANGED <<upstreamVars, pc, cubeVars, routeVars, envVars, resVars,
                 histVars, body>>

\* One iteration of its for loop.
PeerLine ==
  /\ peer.pc = "loop"
  /\ peer' = [peer EXCEPT !.l = LoopLine(peer.l, Head(peer.lines)),
                          !.lines = Tail(peer.lines),
                          !.pc = IF Tail(peer.lines) = <<>> THEN "read" ELSE "loop"]
  /\ UNCHANGED <<upstreamVars, pc, cubeVars, routeVars, envVars, resVars,
                 histVars, body>>

\* Its reader.read() yields done; its sendToCube returns.
PeerDone ==
  /\ peer.pc = "read"
  /\ peer.wire = <<>>
  /\ peer' = [peer EXCEPT !.l = TrailingLine(peer.l, peer.buffer),
                          !.pc = "returned"]
  /\ UNCHANGED <<upstreamVars, pc, cubeVars, routeVars, envVars, resVars,
                 histVars, body>>

\* ------------------------------------------------------------- the client
\* App.tsx, handleSend.  A thinking text is a sequence of characters (NL, SP,
\* letters); a delta fragment is a string.  An optional field of ChatMessage
\* that is absent holds its empty value: the reducer reads every one through
\* `|| []`, `|| ""` or `|| {}`.  meta.events is the field events.
ChatMessage(role, content) ==
  [role |-> role, content |-> content, assistantChunks |-> <<>>,
   thinkingSteps |-> <<>>, thinkingBuffer |-> <<>>, toolCalls |-> <<>>,
   toolResults |-> <<>>, sqlToolCalls |-> <<>>, sqlToolResults |-> <<>>,
   segments |-> <<>>, metadata |-> <<>>, events |-> <<>>]

\* A toolCall object; result and input are "" when absent.
ToolCall(id, input, result) == [id |-> id, input |-> input, result |-> result]

RECURSIVE ConcatAll(_)
ConcatAll(ss) == IF ss = <<>> THEN "" ELSE Head(ss) \o ConcatAll(Tail(ss))

\* text.split(/\n+/): the pieces between the runs of newlines; an empty piece
\* appears only before a leading and after a trailing run.
SplitRuns(text) ==
  IF text = <<>> THEN << <<>> >>
  ELSE (IF Head(text) = NL THEN << <<>> >> ELSE <<>>)
         \o SelectSeq(Split(text), LAMBDA piece : piece # <<>>)
         \o (IF text[Len(text)] = NL THEN << <<>> >> ELSE <<>>)

\* parts.join("\n")
RECURSIVE JoinNL(_)
JoinNL(parts) ==
  IF parts = <<>> THEN <<>>
  ELSE IF Len(parts) = 1 THEN Head(parts)
  ELSE Head(parts) \o <<NL>> \o JoinNL(Tail(parts))

\* A raw envelope as parsed from its line: the object and the order its keys
\* have in the text.  JSON.stringify writes the keys in that order.
Raw1(k1, v1) == [keys |-> <<k1>>, obj |-> (k1 :> v1)]
Raw2(k1, v1, k2, v2) == [keys |-> <<k1, k2>>, obj |-> (k1 :> v1) @@ (k2 :> v2)]
Raw3(k1, v1, k2, v2, k3, v3) ==
  [keys |-> <<k1, k2, k3>>, obj |-> (k1 :> v1) @@ (k2 :> v2) @@ (k3 :> v3)]
JsonStringify(raw) == [i \in 1..Len(raw.keys) |-> <<raw.keys[i], raw.obj[raw.keys[i]]>>]

pushSeg_ReplaceLast(segments, seg) ==
  IF segments # <<>> /\ segments[Len(segments)].type = seg.type
  THEN [segments EXCEPT ![Len(segments)] = seg]
  ELSE Append(segments, seg)

\* pushSeg: a segment equal to the last one is not pushed again.
pushSeg(segments, seg) ==
  IF /\ segments # <<>>
     /\ segments[Len(segments)].type = seg.type
     /\ segments[Len(segments)].value = seg.value
  THEN segments
  ELSE Append(segments, seg)

RECURSIVE pushThinking(_, _)
pushThinking(segments, parts) ==
  IF parts = <<>> THEN segments
  ELSE pushThinking(pushSeg(segments, [type |-> "thinking", value |-> Head(parts)]),
                    Tail(parts))

\* dedupPush, for a value that is there (not undefined, not null).
dedupPush(arr, val) ==
  IF arr # <<>> /\ arr[Len(arr)] = val THEN arr ELSE Append(arr, val)

SetKey(o, k, v) == [x \in DOMAIN o \cup {k} |-> IF x = k THEN v ELSE o[x]]

ReduceDelta_MergeText(last, content) ==
  LET chunks == Append(last.assistantChunks, content)
      n == Len(last.segments)
  IN  [last EXCEPT !.content = ConcatAll(chunks),
                   !.assistantChunks = chunks,
                   !.segments = IF n > 0 /\ @[n].type = "text"
                                THEN [@ EXCEPT ![n].value = @ \o content]
                                ELSE Append(@, [type |-> "text", value |-> content])]

ReduceDelta_LastChunkOnly(last, content) ==
  [last EXCEPT !.content = content,
               !.assistantChunks = Append(@, content),
               !.segments = Append(@, [type |-> "text", value |-> content])]

\* The delta branch, on the last message of the list.
ReduceDelta(last, content) ==
  LET chunks == Append(last.assistantChunks, content) IN
    [last EXCEPT !.content = ConcatAll(chunks),
                 !.assistantChunks = chunks,
                 !.segments = Append(last.segments, [type |-> "text", value |-> content])]

\* The thinking part of the event branch: [steps, buffer, segments] after
\* an envelope whose thinking is truthy.
Thinking(last, raw) ==
  LET parts == SplitRuns(last.thinkingBuffer \o raw.thinking)
      whole == SelectSeq(ButLast(parts), LAMBDA part : ~IsBlank(part))
      rest == Last(parts)
      flush == /\ Has(raw, "isInProcess")
               /\ raw.isInProcess = JsFalse
               /\ ~IsBlank(rest)
      pushed == IF flush THEN Append(whole, rest) ELSE whole
  IN  [steps |-> last.thinkingSteps \o pushed,
       buffer |-> IF flush THEN <<>> ELSE rest,
       segments |-> pushThinking(last.segments, pushed)]

\* if (raw.chartType) ..; if (raw.visualization !== undefined) ..;
\* if (raw.query !== undefined) ..
Hints_OnlyWhenAbsent(meta, raw) ==
  LET m1 == IF Has(raw, "chartType") /\ ~Has(meta, "chartType")
            THEN SetKey(meta, "chartType", raw.chartType) ELSE meta
      m2 == IF Has(raw, "visualization") /\ ~Has(m1, "visualization")
            THEN SetKey(m1, "visualization", raw.visualization) ELSE m1
  IN  IF Has(raw, "query") /\ ~Has(m2, "query")
      THEN SetKey(m2, "query", raw.query) ELSE m2

Hints(meta, raw) ==
  LET m1 == IF Has(raw, "chartType") /\ Truthy(raw.chartType)
            THEN SetKey(meta, "chartType", raw.chartType) ELSE meta
      m2 == IF Has(raw, "visualization")
            THEN SetKey(m1, "visualization", raw.visualization) ELSE m1
  IN  IF Has(raw, "query") THEN SetKey(m2, "query", raw.query) ELSE m2

\* The event branch past the test on the preceding event.
ReduceFresh(last, envelope) ==
  LET raw == envelope.obj
      hasTh == Has(raw, "thinking") /\ raw.thinking # <<>>
      th == IF hasTh THEN Thinking(last, raw)
            ELSE [steps |-> last.thinkingSteps, buffer |-> last.thinkingBuffer,
                  segments |-> last.segments]
      m0 == IF hasTh
            THEN SetKey(last.metadata, "thinking", JoinNL(Append(th.steps, th.buffer)))
            ELSE last.metadata
      hasTc == Has(raw, "toolCall")
      hasRes == hasTc /\ raw.toolCall.result # ""
      hasIn == hasTc /\ raw.toolCall.input # ""
  IN  [last EXCEPT
         !.metadata = Hints(m0, raw),
         !.events = Append(last.events, envelope),
         !.thinkingSteps = th.steps,
         !.thinkingBuffer = th.buffer,
         !.toolCalls = IF hasTc THEN dedupPush(@, raw.toolCall) ELSE @,
         !.toolResults = IF hasRes THEN dedupPush(@, raw.toolCall.result) ELSE @,
         !.sqlToolCalls = IF hasIn THEN dedupPush(@, raw.toolCall.input) ELSE @,
         !.sqlToolResults = IF hasRes THEN dedupPush(@, raw.toolCall.result) ELSE @,
         !.segments = IF hasTc
                      THEN pushSeg(th.segments,
                                   [type |-> "toolCall",
                                    value |-> [call |-> raw.toolCall,
                                               result |-> raw.toolCall.result]])
                      ELSE th.segments]

ReduceEvent_NoDedup(last, raw) == ReduceFresh(last, raw)

\* The event branch: an envelope whose JSON text equals that of the last
\* recorded one is ignored.
ReduceEvent(last, raw) ==
  IF /\ last.events # <<>>
     /\ JsonStringify(last.events[Len(last.events)]) = JsonStringify(raw)
  THEN last
  ELSE ReduceFresh(last, raw)

\* setMessages(prev => ..): the reducers touch the last message, if it is an
\* assistant message.
LastOf(msgs) == msgs[Len(msgs)]
UpdateLast(msgs, reduced) ==
  IF msgs # <<>> /\ msgs[Len(msgs)].role = "assistant"
  THEN [msgs EXCEPT ![Len(msgs)] = reduced]
  ELSE msgs

MaxFed == 3
MaxTurns == 2

NoEnvelope == [type |-> "none"]
\* The ids createConversation gives out (uuidv4), in the order it gives them.
ConvOrder == <<"c1", "c2">>
ConvIds == {ConvOrder[i] : i \in 1..Len(ConvOrder)}
\* own records that the placeholder of the turn in flight is still the last
\* message of the list, deltas the fragments the turn's stream has brought,
\* request the conversationId of the request body ("": none).
ClientIdle ==
  [pc |-> "idle", messages |-> <<>>, conversationId |-> "", fed |-> 0,
   evt |-> NoEnvelope, own |-> FALSE, deltas |-> <<>>, request |-> ""]

proxyVars == <<upstreamVars, pc, cubeVars, routeVars, configured, owner, resVars,
               histVars, body, peer>>

\* handleSend up to the reader: the user message and the assistant
\* placeholder are shown, the request is made.
ClientSend ==
  /\ client.pc = "idle"
  /\ Len(client.messages) < 2 * MaxTurns
  /\ client' = [client EXCEPT
                  !.pc = "stream",
                  !.messages = @ \o <<ChatMessage("user", "hi"), ChatMessage("assistant", "")>>,
                  !.evt = NoEnvelope,
                  !.own = TRUE,
                  !.deltas = <<>>,
                  !.request = client.conversationId]
  /\ UNCHANGED <<proxyVars, repo, tokens>>

\* A delta line of the stream.
ClientDelta(content) ==
  /\ client.pc = "stream"
  /\ client.fed < MaxFed
  /\ client' = [client EXCEPT
                  !.messages = UpdateLast(@, ReduceDelta(LastOf(@), content)),
                  !.fed = @ + 1,
                  !.evt = [type |-> "delta", content |-> content],
                  !.deltas = Append(@, content)]
  /\ UNCHANGED <<proxyVars, repo, tokens>>

\* An event line of the stream.
ClientEvent(raw) ==
  /\ client.pc = "stream"
  /\ client.fed < MaxFed
  /\ client' = [client EXCEPT
                  !.messages = UpdateLast(@, ReduceEvent(LastOf(@), raw)),
                  !.fed = @ + 1,
                  !.evt = [type |-> "event", raw |-> raw]]
  /\ UNCHANGED <<proxyVars, repo, tokens>>

\* let convoId = conversationId; if (!convoId) convoId = createConversation(..)
ServerConvoId(convoId) ==
  IF client.request # "" THEN convoId = client.request
  ELSE \E i \in 1..Len(ConvOrder) :
         /\ convoId = ConvOrder[i]
         /\ ~Has(repo.conversations, convoId)
         /\ \A j \in 1..(i - 1) : Has(repo.conversations, ConvOrder[j])
ServerCreates(convoId) ==
  repo' = IF client.request # "" THEN repo
          ELSE [repo EXCEPT !.conversations = SetKey(@, convoId, UserId)]

ClientDone_KeepId(convoId, msgs) ==
  /\ client.pc = "stream"
  /\ ServerConvoId(convoId)
  /\ client' = [client EXCEPT
                  !.pc = "ended",
                  !.evt = [type |-> "done", conversationId |-> convoId,
                           messages |-> msgs]]
  /\ ServerCreates(convoId)
  /\ UNCHANGED <<proxyVars, tokens>>

\* The done line of the turn, carrying the id of the conversation the server
\* used for the request (the one named, or one it made): the client takes
\* the id; the normalized list is computed and dropped
\* (setMessages(normalized) is commented out).
ClientDone(convoId, msgs) ==
  /\ client.pc = "stream"
  /\ ServerConvoId(convoId)
  /\ client' = [client EXCEPT
                  !.pc = "ended",
                  !.conversationId = IF convoId # "" THEN convoId ELSE @,
                  !.evt = [type |-> "done", conversationId |-> convoId,
                           messages |-> msgs]]
  /\ ServerCreates(convoId)
  /\ UNCHANGED <<proxyVars, tokens>>

\* reader.read() yields done: setIsSending(false).
ClientEnd ==
  /\ client.pc \in {"stream", "ended"}
  /\ client' = [client EXCEPT !.pc = "idle", !.own = FALSE]
  /\ UNCHANGED <<proxyVars, repo, tokens>>

\* loadMessages(id): the list fetched for a conversation of the sidebar
\* replaces the list shown; the sidebar is never disabled.
ClientLoad(id, data) ==
  /\ client' = [client EXCEPT !.conversationId = id, !.messages = data,
                              !.own = FALSE]
  /\ UNCHANGED <<proxyVars, repo, tokens>>

\* handleClear, from "Clear chat": disabled={isSending && !messages.length}.
ClientClear ==
  /\ client.pc = "idle" \/ client.messages # <<>>
  /\ client' = [client EXCEPT !.conversationId = "", !.messages = <<>>,
                              !.own = FALSE]
  /\ UNCHANGED <<proxyVars, repo, tokens>>

\* ---------------------------------------------------------- the repository
MaxRows == 2

\* given keeps, per conversation, the messages as addMessage was handed them.
RepoEmpty ==
  [conversations |-> <<>>, messages |-> [c \in ConvIds |-> <<>>],
   given |-> [c \in ConvIds |-> <<>>],
   asked |-> <<>>, result |-> [found |-> FALSE, rows |-> <<>>]]

NotFound == [found |-> FALSE, rows |-> <<>>]

listMessagesOf_AnyOwner(r, conversationId, userId, p) ==
  IF conversationId \notin DOMAIN r.conversations
  THEN NotFound
  ELSE [found |-> TRUE, rows |-> listMessages(r.messages[conversationId], p)]

\* listMessages(conversationId, userId): null unless the conversation is
\* there and is the user's.
listMessagesOf(r, conversationId, userId, p) ==
  IF \/ conversationId \notin DOMAIN r.conversations
     \/ r.conversations[conversationId] # userId
  THEN NotFound
  ELSE [found |-> TRUE, rows |-> listMessages(r.messages[conversationId], p)]

\* createConversation(userId): a row with a fresh id.
RepoCreate(c, userId) ==
  /\ c \notin DOMAIN repo.conversations
  /\ repo' = [repo EXCEPT
                !.conversations = [x \in DOMAIN @ \cup {c} |->
                                     IF x = c THEN userId ELSE @[x]]]
  /\ UNCHANGED <<proxyVars, client, tokens>>

RepoRowCount == Len(repo.messages["c1"]) + Len(repo.messages["c2"])

\* addMessage(conversationId, msg); the foreign key wants the conversation.
RepoAdd(c, role, t, metadata) ==
  /\ c \in DOMAIN repo.conversations
  /\ RepoRowCount < MaxRows
  /\ repo' = [repo EXCEPT
                !.messages[c] = addMessage(@, role, "m", t, metadata),
                !.given[c] = Append(@, [role |-> role, content |-> "m",
                                        timestamp |-> t, metadata |-> metadata])]
  /\ UNCHANGED <<proxyVars, client, tokens>>

\* A call of listMessages, as GET /api/conversations/:id/messages makes it.
RepoList(c, userId) ==
  /\ \E p \in Orderings(repo.messages[c]) :
       repo' = [repo EXCEPT !.asked = <<c, userId>>,
                            !.result = listMessagesOf(repo, c, userId, p)]
  /\ UNCHANGED <<proxyVars, client, tokens>>

\* ------------------------------------------------------- the token cache
MaxIssued == 4

\* A token is the external id it was exchanged for and a serial number.
NoToken == <<>>
TokensEmpty ==
  [cached |-> NoToken, table |-> <<>>, issued |-> 0, asked |-> "",
   result |-> NoToken]

\* readCachedToken: the module's cachedToken if there is one, whatever the
\* id; else the row of the id, which it also keeps in cachedToken.
readCachedToken(t, externalId) ==
  IF t.cached # NoToken THEN [t EXCEPT !.result = t.cached]
  ELSE IF Has(t.table, externalId)
  THEN [t EXCEPT !.cached = t.table[externalId], !.result = t.table[externalId]]
  ELSE [t EXCEPT !.result = NoToken]

\* writeCachedToken: cachedToken and the row of the id (upsert).
writeCachedToken(t, externalId, token) ==
  [t EXCEPT !.cached = token, !.table = SetKey(t.table, externalId, token)]

\* getToken(externalId, forceRefresh); exchangeToken gives a new token for
\* the id.
GetToken(externalId, forceRefresh) ==
  /\ LET read == readCachedToken(tokens, externalId)
         token == <<externalId, tokens.issued + 1>>
     IN  IF ~forceRefresh /\ read.result # NoToken
         THEN tokens' = [read EXCEPT !.asked = externalId]
         ELSE /\ tokens.issued < MaxIssued
              /\ tokens' = [writeCachedToken(read, externalId, token) EXCEPT
                              !.issued = @ + 1, !.asked = externalId,
                              !.result = token]
  /\ UNCHANGED <<proxyVars, client, repo>>

\* clearCachedToken(externalId): cachedToken and the row of the id.
ClearCachedToken(externalId) ==
  /\ tokens' = [tokens EXCEPT
                  !.cached = NoToken,
                  !.table = [x \in DOMAIN @ \ {externalId} |-> @[x]]]
  /\ UNCHANGED <<proxyVars, client, repo>>

\* --------------------------------------------------------- specifications
MaxTick == 1

\* The state of a turn before the request arrives.
InitTurn ==
  /\ headersSent = FALSE
  /\ fetched = FALSE
  /\ error = ""
  /\ outcome = "open"
  /\ connected = TRUE
  /\ lostWrite = FALSE
  /\ everStreaming = FALSE
  /\ framed = <<>>
  /\ client = ClientIdle
  /\ repo = RepoEmpty
  /\ tokens = TokensEmpty

Init ==
  /\ InitTurn
  /\ configured = TRUE
  /\ owner = UserId
  /\ body = NoBody
  /\ peer = PeerIdle
  /\ wire = <<>>
  /\ closed = FALSE
  /\ pc = "idle"
  /\ buffer = <<>>
  /\ lines = <<>>
  /\ streamingStarted = FALSE
  /\ assistantText = ""
  /\ lastMetadata = Undefined
  /\ accepted = <<>>
  /\ assistantAccum = ""
  /\ written = <<>>
  /\ messages = <<>>

Turn ==
  \/ ChatRequest
  \/ UpstreamRespond
  \/ \E k \in 1..MaxWire : ReadChunk(k)
  \/ ProcessLine
  \/ ReadDone
  \/ \E t \in 0..MaxTick : Finish(t)

Upstream(texts) ==
  \/ \E text \in texts : UpstreamWrite(text)
  \/ \E text \in texts : UpstreamEnd(text)

\* The replay gate: cutoff markers of every shape, a user echo, content,
\* a side channel, malformed and blank lines.
GateTexts ==
  { <<"cutT">>, <<"cutF">>, <<"cutN">>, <<"cut1">>, <<"cutU">>, <<"usr">>,
    <<"usrT">>, <<"asstA">>, <<"thFoo">>, <<BAD>>, <<SP>>, <<>>, <<SP, "asstA">> }

Next == Turn \/ Upstream(GateTexts)
Spec == Init /\ [][Next]_vars

\* The aggregator: one marker, then thinking fragments, tool calls (one of
\* them null), metadata objects (one with a key named like a channel).
MergeTexts ==
  { <<"cutT">>, <<"usr">>, <<"thFoo">>, <<"thBar">>, <<"tcX">>, <<"tcY">>,
    <<"tcNull">>, <<"m1">>, <<"m2">> }

NextMerge == Turn \/ Upstream(MergeTexts)
SpecMerge == Init /\ [][NextMerge]_vars

\* The re-emitter: one marker, then content fragments (one a prefix of
\* another, one with a thinking fragment), chart hints, a metadata object.
EmitTexts ==
  { <<"cutT">>, <<"asstA">>, <<"asstAB">>, <<"asstT">>, <<"chart">>, <<"m1">>,
    <<"thFoo">> }

NextEmit == Turn \/ Upstream(EmitTexts)
SpecEmit == Init /\ [][NextEmit]_vars

\* The turn as a whole, failures included: the configuration may be
\* incomplete, the conversation named by the request may be another user's,
\* the upstream may refuse or break, the consumer may go away.
InitAny ==
  /\ InitTurn
  /\ configured \in BOOLEAN
  /\ owner \in Users
  /\ body = NoBody
  /\ peer = PeerIdle
  /\ wire = <<>>
  /\ closed = FALSE
  /\ pc = "idle"
  /\ buffer = <<>>
  /\ lines = <<>>
  /\ streamingStarted = FALSE
  /\ assistantText = ""
  /\ lastMetadata = Undefined
  /\ accepted = <<>>
  /\ assistantAccum = ""
  /\ written = <<>>
  /\ messages = <<>>

Failures ==
  \/ ChatRequestUnconfigured
  \/ UpstreamRefuse
  \/ ReadFail
  \/ Disconnect

TurnTexts == { <<"cutT">>, <<"cutF">>, <<"asstA">>, <<"thFoo">>, <<BAD>> }

NextAny == Turn \/ Failures \/ Upstream(TurnTexts)
SpecAny == InitAny /\ [][NextAny]_vars

\* The framer: the upstream body is fixed beforehand, every text of newlines,
\* spaces, a malformed text and two envelopes up to the bound; the reads cut
\* it anywhere.
MaxBody == 5
FramerSymbols == { NL, SP, BAD, "cutT", "asstA" }
Texts(symbols, n) == UNION { [1..m -> symbols] : m \in 0..n }

InitFramer ==
  /\ InitTurn
  /\ configured = TRUE
  /\ owner = UserId
  /\ body \in { Body(text) : text \in Texts(FramerSymbols, MaxBody) }
  /\ peer = PeerIdle
  /\ wire = <<>>
  /\ closed = FALSE
  /\ pc = "idle"
  /\ buffer = <<>>
  /\ lines = <<>>
  /\ streamingStarted = FALSE
  /\ assistantText = ""
  /\ lastMetadata = Undefined
  /\ accepted = <<>>
  /\ assistantAccum = ""
  /\ written = <<>>
  /\ messages = <<>>

NextFramer ==
  \/ ChatRequest
  \/ UpstreamRespond
  \/ UpstreamBody
  \/ \E k \in 1..MaxBody : ReadChunk(k)
  \/ ProcessLine
  \/ ReadDone
  \/ Finish(0)
SpecFramer == InitFramer /\ [][NextFramer]_vars

\* Two requests in flight at once, each with its own upstream body.
TwoBodies ==
  { <<"cutT", NL, "asstA", NL>>, <<"cutT", NL, "asstA">>, <<"cutT", NL, "thFoo", NL>>,
    <<"asstA", NL, "cutT">>, <<"cutT", NL, "asstAB", NL>>, <<"thBar", NL>> }

InitTwo ==
  /\ InitTurn
  /\ configured = TRUE
  /\ owner = UserId
  /\ body \in { Body(text) : text \in TwoBodies }
  /\ peer \in { [PeerIdle EXCEPT !.body = text] : text \in TwoBodies }
  /\ wire = <<>>
  /\ closed = FALSE
  /\ pc = "idle"
  /\ buffer = <<>>
  /\ lines = <<>>
  /\ streamingStarted = FALSE
  /\ assistantText = ""
  /\ lastMetadata = Undefined
  /\ accepted = <<>>
  /\ assistantAccum = ""
  /\ written = <<>>
  /\ messages = <<>>

Peer ==
  \/ PeerRequest
  \/ \E k \in 1..MaxWire : PeerRead(k)
  \/ PeerLine
  \/ PeerDone

NextTwo == Turn \/ UpstreamBody \/ Peer
SpecTwo == InitTwo /\ [][NextTwo]_vars

\* The client on its own: the lines of a downstream stream, in any order
\* the vocabulary allows, with done last.
TextP == <<"p">>
ClientRaws ==
  { Raw1("thinking", TextP),
    Raw1("thinking", <<"p", NL, "q">>),
    Raw1("thinking", <<NL, NL>>),
    Raw2("thinking", <<"z">>, "isInProcess", JsFalse),
    Raw2("isInProcess", JsFalse, "thinking", <<"z">>),
    Raw2("toolCall", ToolCall("x", "", ""), "isInProcess", JsFalse),
    Raw1("toolCall", ToolCall("x", "", "")),
    Raw1("toolCall", ToolCall("x", "i", "r")),
    Raw2("toolCall", ToolCall("x", "", ""), "toolCallResult", "R"),
    Raw3("chartType", "bar", "visualization", "V", "query", "Q"),
    Raw2("chartType", Null, "query", "Q2") }

DoneLists ==
  { <<ChatMessage("user", "hi"), ChatMessage("assistant", "ab")>> }

Client ==
  \/ ClientSend
  \/ \E content \in {"a", "b"} : ClientDelta(content)
  \/ \E raw \in ClientRaws : ClientEvent(raw)
  \/ \E convoId \in ConvIds \cup {"c0"}, msgs \in DoneLists : ClientDone(convoId, msgs)
  \/ ClientEnd

NextClient == Client
SpecClient == Init /\ [][NextClient]_vars

\* The client with its sidebar and its clear button: while a stream is
\* being delivered the user may load a conversation stored earlier ("c0")
\* or clear the chat.
StoredLists ==
  { <<ChatMessage("user", "q"), ChatMessage("assistant", "ab")>>,
    <<ChatMessage("user", "q")>> }

NextClientUI ==
  \/ ClientSend
  \/ \E content \in {"a", "b"} : ClientDelta(content)
  \/ \E raw \in {Raw1("thinking", TextP), Raw1("toolCall", ToolCall("x", "", ""))} :
       ClientEvent(raw)
  \/ \E convoId \in ConvIds \cup {"c0"}, msgs \in DoneLists : ClientDone(convoId, msgs)
  \/ ClientEnd
  \/ \E data \in StoredLists : ClientLoad("c0", data)
  \/ ClientClear
SpecClientUI == Init /\ [][NextClientUI]_vars

\* The repository on its own: two users, two conversation ids.
Repo ==
  \/ \E c \in ConvIds, userId \in Users : RepoCreate(c, userId)
  \/ \E c \in ConvIds, role \in {"user", "assistant"}, t \in 0..MaxTick,
          metadata \in {Undefined, Obj([chartType |-> "bar"])} :
       RepoAdd(c, role, t, metadata)
  \/ \E c \in ConvIds, userId \in Users : RepoList(c, userId)

NextRepo == Repo
SpecRepo == Init /\ [][NextRepo]_vars

\* The token cache on its own: the calls sendToCube makes for two users.
NextToken ==
  \/ \E externalId \in Users, forceRefresh \in BOOLEAN : GetToken(externalId, forceRefresh)
  \/ \E externalId \in Users : ClearCachedToken(externalId)
SpecToken == Init /\ [][NextToken]_vars

\* ------------------------------------------------------- steps and lines
\* The step hands one framed line to the decoder: an iteration of the for
\* loop, or the trailing fragment at the end of the stream.
ConsumesLine ==
  \/ pc = "loop" /\ lines' = Tail(lines)
  \/ pc = "read" /\ pc' = "returned"
\* The line such a step handles, and the envelope it decodes to.
CurLine == IF pc = "loop" THEN Head(lines) ELSE buffer
CurMsg == Parse(CurLine)
ProcessesEnvelope == ConsumesLine /\ Parses(CurLine)
Outputs == <<assistantText, lastMetadata, written>>

\* ------------------------------------------------------------ replay gate
\* C1: the gate is SUPPRESSING when the stream is opened; a step that handles
\* an envelope whose id is "__cutoff__" (whatever else it carries) leaves the
\* gate STREAMING exactly when state.isStreaming is the literal true, and no
\* other step changes the gate.
C1_GateFollowsEveryCutoff ==
  [][ /\ (pc = "fetch" /\ pc' = "read") => ~streamingStarted'
      /\ IF ProcessesEnvelope /\ IsCutoff(CurMsg)
         THEN streamingStarted' = IsStreamingTrue(CurMsg)
         ELSE streamingStarted' = streamingStarted ]_vars

\* C2: a step that handles an envelope while the gate is SUPPRESSING changes
\* neither the assistant text nor the aggregated metadata and writes nothing
\* downstream.
C2_SuppressedContributesNothing ==
  [][ (ProcessesEnvelope /\ ~streamingStarted) => UNCHANGED Outputs ]_vars

\* C3: a step that handles a cutoff envelope, in the loop or as the final
\* fragment, changes neither the assistant text nor the aggregated metadata
\* and writes nothing downstream.
C3_CutoffAlwaysConsumed ==
  [][ (ProcessesEnvelope /\ IsCutoff(CurMsg)) => UNCHANGED Outputs ]_vars

\* C4: while STREAMING, a step that handles an envelope with role "user"
\* changes neither the assistant text nor the aggregated metadata and writes
\* nothing downstream.
C4_UserEchoDropped ==
  [][ (ProcessesEnvelope /\ streamingStarted /\ IsUser(CurMsg))
        => UNCHANGED Outputs ]_vars

\* C4 witness: the stream ended with a user envelope carrying a tool call as
\* its final fragment while the gate was STREAMING and content had been
\* accepted; sendToCube has returned.
C4_Witness ==
  /\ pc = "returned"
  /\ buffer = <<"usrT">>
  /\ streamingStarted
  /\ assistantText = "a"
  /\ lastMetadata = Obj(<<>>)

\* ------------------------------------------------------------- aggregator
RECURSIVE ConcatThinking(_)
\* The thinking fragments of a list of envelopes, concatenated in order.
ConcatThinking(es) ==
  IF es = <<>> THEN ""
  ELSE (IF Has(Head(es), "thinking") THEN Head(es).thinking ELSE "")
       \o ConcatThinking(Tail(es))

\* C5: the thinking channel of the aggregated metadata is the in-order
\* concatenation of the thinking fragments of the accepted envelopes.
C5_ThinkingIsConcatenated ==
  ConcatThinking(accepted) # ""
    => /\ lastMetadata.def
       /\ Has(lastMetadata.obj, "thinking")
       /\ lastMetadata.obj.thinking = ConcatThinking(accepted)

OverwriteChannels == {"toolCall", "toolCallResult", "sqlToolCall", "sqlToolCallResult"}
HasMetaKey(e, k) == Has(e, "metadata") /\ Has(e.metadata, k)
\* The keys C6 speaks of: the four channels and every metadata key seen.
MergedKeys ==
  OverwriteChannels \cup
  UNION { DOMAIN accepted[i].metadata : i \in { j \in 1..Len(accepted) : Has(accepted[j], "metadata") } }

\* The envelope carries channel or metadata key k, and the value it carries.
Carries(e, k) == (k \in OverwriteChannels /\ Has(e, k)) \/ HasMetaKey(e, k)
CarriedValue(e, k) == IF k \in OverwriteChannels /\ Has(e, k) THEN e[k] ELSE e.metadata[k]
\* The same, a channel counting only when its value is truthy.
Sets(e, k) == (k \in OverwriteChannels /\ Has(e, k) /\ Truthy(e[k])) \/ HasMetaKey(e, k)
SetValue(e, k) ==
  IF k \in OverwriteChannels /\ Has(e, k) /\ Truthy(e[k]) THEN e[k] ELSE e.metadata[k]

\* The value the aggregated metadata holds for k, an absent key read as null.
Aggregated(k) ==
  IF lastMetadata.def /\ Has(lastMetadata.obj, k) THEN lastMetadata.obj[k] ELSE Null

C7_KeysOnlyGrow ==
  [][ lastMetadata.def
        => /\ lastMetadata'.def
           /\ DOMAIN lastMetadata.obj \subseteq DOMAIN lastMetadata'.obj ]_vars

\* C7 witness: a thinking fragment and then a tool call were accepted, and
\* the aggregated metadata has both keys.
C7_Witness ==
  /\ accepted = <<JsonText.thFoo, JsonText.tcX>>
  /\ lastMetadata.def
  /\ DOMAIN lastMetadata.obj = {"thinking", "toolCall"}

\* ------------------------------------------------------------- re-emitter
IsDelta(u) == u.type = "delta"
IsEvent(u) == u.type = "event"
IsFragment(e) == HasAssistantContent(e)
\* "carries at least one of" the eight side-channel fields.
CarriesSideChannel(e) == \E i \in 1..Len(SideChannels) : Has(e, SideChannels[i])

DeltaContents ==
  LET ds == SelectSeq(written, IsDelta) IN [i \in 1..Len(ds) |-> ds[i].content]
EventRaws ==
  LET es == SelectSeq(written, IsEvent) IN [i \in 1..Len(es) |-> es[i].raw]
Fragments ==
  LET fs == SelectSeq(accepted, IsFragment) IN [i \in 1..Len(fs) |-> fs[i].content]

RECURSIVE Concat(_)
Concat(ss) == IF ss = <<>> THEN "" ELSE Head(ss) \o Concat(Tail(ss))

\* C8: the deltas written downstream are, one for one and in order, the
\* content fragments of the accepted assistant envelopes.
C8_DeltaIsExactlyTheFragment == DeltaContents = Fragments

\* The assistant message of the message list that done carries.
DoneAssistantContent ==
  LET msgs == written[Len(written)].messages
      i == CHOOSE j \in 1..Len(msgs) : msgs[j].role = "assistant"
  IN  msgs[i].content

\* C9: at the end of a turn that accepted a non-empty fragment, the deltas
\* concatenate to the content of the assistant message done carries, which
\* is the concatenation of the accepted fragments.
C9_DeltasConcatenateToMessage ==
  (pc = "done" /\ Concat(Fragments) # "")
    => /\ Concat(DeltaContents) = DoneAssistantContent
       /\ DoneAssistantContent = Concat(Fragments)

\* C10: the events written downstream are, one for one and in order, the
\* accepted envelopes that carry a side-channel field.
C10_OneEventPerSideChannelEnvelope ==
  EventRaws = SelectSeq(accepted, CarriesSideChannel)

\* ------------------------------------------------------ the end of a turn
IsDone(u) == u.type = "done"
Dones == SelectSeq(written, IsDone)

\* C11: a turn whose upstream closes cleanly goes on to write done (nothing
\* holds back the end of sendToCube or the rest of the handler); done is
\* written exactly once, as the last unit, by the step that ends the
\* response, and no done exists before that step.
C11_ExactlyOneDoneLastThenEnded ==
  /\ (pc = "read" /\ closed /\ wire = <<>>) => ENABLED ReadDone
  /\ pc = "returned" => ENABLED Finish(0)
  /\ pc = "done" => /\ Len(Dones) = 1
                    /\ IsDone(written[Len(written)])
                    /\ outcome = "ended"
  /\ pc # "done" => Dones = <<>> /\ outcome # "ended"

C11_Witness ==
  /\ pc = "done"
  /\ Len(written) >= 3
  /\ IsDelta(written[1])
  /\ IsEvent(written[2])

\* The metadata listMessages gives back for a message stored with metadata m.
StoredMetadata(m) == JsonParse(Stringify(IF m.def THEN JsObject(m.obj) ELSE JsNull))
AssistantRows == SelectSeq(messages, LAMBDA r : r.role = "assistant")

\* C12: once done is written the assistant message is in storage, and the
\* message list done carries has every stored row of the conversation, among
\* them the user message of the turn and the assistant message with the
\* final text and the final aggregated metadata.
C12_DoneCarriesReloadedList ==
  /\ Dones # <<>> => AssistantRows # <<>>
  /\ pc = "done" =>
       LET msgs == written[Len(written)].messages IN
         /\ Len(msgs) = Len(messages)
         /\ \E i \in 1..Len(msgs) : msgs[i].role = "user" /\ msgs[i].content = "hi"
         /\ \E j \in 1..Len(msgs) :
              /\ msgs[j].role = "assistant"
              /\ msgs[j].content = CubeMessage
              /\ msgs[j].metadata = StoredMetadata(lastMetadata)

\* ----------------------------------------------------------- failed turns
\* C13: after the upstream answered with a non-success status or without a
\* body, nothing has been written downstream, the response has ended in an
\* error (an error response or a torn-down connection), and storage holds no
\* message of the turn.
C13_HttpErrorLeavesNothing ==
  error = HttpError =>
    /\ written = <<>>
    /\ outcome \in {"error500", "destroyed"}
    /\ messages = <<>>

\* C14: a turn that is over has given the caller either an ended stream
\* whose last unit is done, or the error response of the error middleware.
C14_CompleteStreamOrErrorResponse ==
  pc \in {"done", "failed"} =>
    \/ outcome = "ended" /\ written # <<>> /\ IsDone(written[Len(written)])
    \/ outcome = "error500"

\* The step takes a chunk from the upstream reader.
ReadsChunk == pc = "read" /\ Len(wire') < Len(wire)

\* C15: once a write has been made to a consumer that had gone, no further
\* upstream chunk is read; and an assistant message is in storage only if
\* the consumer was still connected when the turn ended.
C15_DisconnectStopsTheTurn ==
  /\ [](AssistantRows # <<>> => connected)
  /\ [][lostWrite => ~ReadsChunk]_vars

\* ------------------------------------------------------------- the framer
\* The non-blank lines of a text, in order; the last one may lack its newline.
NonBlankLines(text) == SelectSeq(Split(text), LAMBDA line : ~IsBlank(line))
IsPrefix(s, t) == Len(s) <= Len(t) /\ SubSeq(t, 1, Len(s)) = s

\* C16: however the reads cut a fixed body, the lines handed to the decoder
\* are at every moment the first non-blank lines of the body, in order, and
\* at the end of the stream they are all of them, each once.
C16_FramingIgnoresChunking ==
  body.fixed =>
    /\ IsPrefix(framed, NonBlankLines(body.text))
    /\ pc \in {"returned", "done"} => framed = NonBlankLines(body.text)

\* A read has ended inside the second line, after a blank part of it.
C16_Witness ==
  /\ body.fixed
  /\ pc = "read"
  /\ framed = << <<"cutT">> >>
  /\ buffer = <<SP>>
  /\ wire = <<"asstA">>

\* ------------------------------------------------ a whole body at a time
\* sendToCube and onDelta run on a body that arrives as one chunk.
RECURSIVE FoldLines(_, _)
FoldLines(l, ls) ==
  IF ls = <<>> THEN l ELSE FoldLines(LoopLine(l, Head(ls)), Tail(ls))
RunAlone(text) ==
  TrailingLine(FoldLines(InitialLocals, ButLast(Split(text))), Last(Split(text)))

RECURSIVE JoinLines(_)
JoinLines(ls) ==
  IF ls = <<>> THEN <<>> ELSE Head(ls) \o <<NL>> \o JoinLines(Tail(ls))

\* A line the decoder rejects.
Malformed(line) == ~IsBlank(line) /\ ~Parses(line)
\* The text without its malformed lines (each goes with its newline).
WithoutMalformed(text) ==
  LET keep(line) == ~Malformed(line)
      last == Last(Split(text))
  IN  JoinLines(SelectSeq(ButLast(Split(text)), keep))
        \o (IF keep(last) THEN last ELSE <<>>)

\* C17: when sendToCube returns, no error has been raised and the gate, the
\* assistant text, the aggregated metadata and the units written downstream
\* are those of the same body without its malformed lines.
C17_MalformedLinesHaveNoEffect ==
  (body.fixed /\ pc = "returned") =>
    /\ error = ""
    /\ Locals = RunAlone(WithoutMalformed(body.text))

\* A malformed line between the marker and a content line.
C17_Witness ==
  /\ pc = "returned"
  /\ body = Body(<<"cutT", NL, BAD, NL, "asstA">>)
  /\ assistantText = "a"

\* C18: a turn whose gate never was STREAMING ends without error: when
\* sendToCube returns nothing has been written, and when the turn is done the
\* only unit written is done and the assistant message in storage is
\* "No response" with a null metadata column.
C18_SuppressedTurnCompletes ==
  /\ (pc = "returned" /\ ~everStreaming) => written = <<>> /\ error = ""
  /\ (pc = "done" /\ ~everStreaming) =>
       /\ error = ""
       /\ Len(written) = 1
       /\ IsDone(written[1])
       /\ Len(AssistantRows) = 1
       /\ AssistantRows[1].content = NoResponse
       /\ AssistantRows[1].metadata = Stringify(JsNull)

C18_Witness ==
  /\ pc = "done"
  /\ ~everStreaming
  /\ connected
  /\ owner = UserId
  /\ Len(written[1].messages) = 2

\* C19: when the turn has failed for want of configuration, no upstream
\* request has been issued and no downstream stream has been started.
C19_ConfigErrorBeforeAnyStream ==
  error = NotConfigured => ~fetched /\ ~headersSent

\* ------------------------------------------------------------ two requests
\* sendToCube's result for a body that arrives as one chunk.
MessageAlone(text) ==
  IF RunAlone(text).text # "" THEN RunAlone(text).text ELSE NoResponse

\* C20: with two requests in flight, their reads and line steps interleaved
\* in any order, each request returns with the gate, text, metadata and
\* downstream units it has when its body is run alone, and the first
\* request's stored assistant message is the one of its run alone.
C20_RequestsDoNotInterfere ==
  /\ peer.pc = "returned" => peer.l = RunAlone(peer.body)
  /\ pc = "returned" => Locals = RunAlone(body.text)
  /\ pc = "done" =>
       /\ SubSeq(written, 1, Len(written) - 1) = RunAlone(body.text).cb.out
       /\ AssistantRows[1].content = MessageAlone(body.text)

\* The first request has returned with its text while the second, its gate
\* open, holds an unfinished line.
C20_Witness ==
  /\ pc = "returned"
  /\ assistantText = "a"
  /\ peer.pc = "read"
  /\ peer.l.gate
  /\ peer.buffer = <<"thFoo">>

\* ------------------------------------------------------ the client reducer
\* The message the stream is folded into: the last one of the list.
InFlight == client.messages[Len(client.messages)]
InFlightNext == client'.messages[Len(client'.messages)]
DeltaStep == client'.fed = client.fed + 1 /\ client'.evt.type = "delta"
EventStep == client'.fed = client.fed + 1 /\ client'.evt.type = "event"
\* The event of the step is, as an object, the one recorded last for the
\* message (deep equality) / has the JSON text of that one.
RepeatedEvent ==
  /\ EventStep
  /\ InFlight.events # <<>>
  /\ InFlight.events[Len(InFlight.events)].obj = client'.evt.raw.obj
RepeatedEventText ==
  /\ EventStep
  /\ InFlight.events # <<>>
  /\ JsonStringify(InFlight.events[Len(InFlight.events)]) = JsonStringify(client'.evt.raw)

DoneStep == client.pc = "stream" /\ client'.pc = "ended"

\* C22: on the done envelope the list shown becomes the list the envelope
\* carries, and with it the in-flight message's segments, thinking buffer
\* and trackers are gone.
C22_DoneReplacesTheList ==
  [][DoneStep => client'.messages = client'.evt.messages]_vars


\* An event that is processed (not a repetition) and carries a thinking
\* fragment.
ThinkingStep ==
  /\ EventStep
  /\ ~RepeatedEventText
  /\ Has(client'.evt.raw.obj, "thinking")
  /\ client'.evt.raw.obj.thinking # <<>>
Pending == InFlight.thinkingBuffer \o client'.evt.raw.obj.thinking
HasBlankLine(text) ==
  \E i \in 1..(Len(text) - 1) : text[i] = NL /\ text[i + 1] = NL

\* C23: the pending thinking text is split at blank lines only; while it
\* holds no blank line (single newlines included) and the process has not
\* ended, all of it stays in the buffer and no segment is made.
C23_ThinkingSplitsAtBlankLinesOnly ==
  [][(/\ ThinkingStep
      /\ ~Has(client'.evt.raw.obj, "isInProcess")
      /\ ~HasBlankLine(Pending))
     => /\ InFlightNext.thinkingBuffer = Pending
        /\ InFlightNext.segments = InFlight.segments]_vars


\* An event that is processed and says the process has ended.
EndStep ==
  /\ EventStep
  /\ ~RepeatedEventText
  /\ Has(client'.evt.raw.obj, "isInProcess")
  /\ client'.evt.raw.obj.isInProcess = JsFalse

\* C24: after an event with isInProcess false nothing non-blank is left
\* pending; if the event has no thinking of its own, the non-blank buffer
\* has become the message's thinking segment.
C24_EndOfProcessFlushesTheBuffer ==
  [][EndStep =>
       /\ IsBlank(InFlightNext.thinkingBuffer)
       /\ (~Has(client'.evt.raw.obj, "thinking") /\ ~IsBlank(InFlight.thinkingBuffer))
            => \E i \in 1..Len(InFlightNext.segments) :
                 InFlightNext.segments[i] =
                   [type |-> "thinking", value |-> InFlight.thinkingBuffer]]_vars


\* The result an envelope brings for the call it names: the call's own
\* result, or the toolCallResult beside it.
ResultOf(raw) ==
  IF raw.toolCall.result # "" THEN raw.toolCall.result
  ELSE IF Has(raw, "toolCallResult") THEN raw.toolCallResult
  ELSE ""
ToolSegments(m) ==
  {i \in 1..Len(m.segments) : m.segments[i].type = "toolCall"}

\* C25: in every message, a toolCall segment carries the result that any
\* processed envelope of the message brought for its call, and no two
\* toolCall segments are the same call+result pair.
C25_ToolCallSegmentCarriesItsResult ==
  \A n \in 1..Len(client.messages) :
    LET m == client.messages[n] IN
      /\ \A i \in ToolSegments(m), e \in 1..Len(m.events) :
           LET raw == m.events[e].obj IN
             (/\ Has(raw, "toolCall")
              /\ raw.toolCall.id = m.segments[i].value.call.id
              /\ ResultOf(raw) # "")
               => m.segments[i].value.result = ResultOf(raw)
      /\ \A i, j \in ToolSegments(m) :
           m.segments[i] = m.segments[j] => i = j


\* C26: while a message is in flight every envelope leaves the segments it
\* had where they were: the list before is a prefix of the list after.
C26_SegmentsAreAppendOnly ==
  [][(DeltaStep \/ EventStep) => IsPrefix(InFlight.segments, InFlightNext.segments)]_vars

\* A delta, a thinking paragraph and a tool call have each added a segment.
C26_Witness ==
  /\ client.pc = "stream"
  /\ client.fed = 3
  /\ Len(InFlight.segments) = 3
  /\ InFlight.segments[1].type = "text"
  /\ InFlight.segments[2].type = "thinking"
  /\ InFlight.segments[3].type = "toolCall"


\* C27: a delta adds one text segment holding the fragment to the in-flight
\* message and puts the fragment at the end of its content; the list keeps
\* its length and every other message stays as it was.
C27_DeltaAppendsOneTextSegment ==
  [][DeltaStep =>
       /\ InFlightNext.segments =
            Append(InFlight.segments, [type |-> "text", value |-> client'.evt.content])
       /\ InFlightNext.content = InFlight.content \o client'.evt.content
       /\ Len(client'.messages) = Len(client.messages)
       /\ \A i \in 1..(Len(client.messages) - 1) :
            client'.messages[i] = client.messages[i]]_vars

\* The second turn has taken two deltas while the first turn's message, fed
\* by one delta, is still in the list.
C27_Witness ==
  /\ client.pc = "stream"
  /\ Len(client.messages) = 4
  /\ client.messages[2].content = "a"
  /\ client.evt = [type |-> "delta", content |-> "a"]
  /\ InFlight.content = "ba"
  /\ Len(InFlight.segments) = 2


HintKeys == {"chartType", "visualization", "query"}
\* An event whose raw payload has hint keys only.
HintStep == EventStep /\ DOMAIN client'.evt.raw.obj \subseteq HintKeys
SameKey(k) ==
  /\ Has(InFlightNext.metadata, k) <=> Has(InFlight.metadata, k)
  /\ Has(InFlight.metadata, k) => InFlightNext.metadata[k] = InFlight.metadata[k]

ListStep ==
  /\ repo' # repo
  /\ repo'.conversations = repo.conversations
  /\ repo'.messages = repo.messages
Timestamps(rows) == [i \in 1..Len(rows) |-> rows[i].timestamp]
Ascending(ts) == \A i, j \in 1..Len(ts) : i < j => ts[i] <= ts[j]
\* rows are the stored rows, each once, in some order.
SameMessages(rows, stored) ==
  /\ Len(rows) = Len(stored)
  /\ \E p \in [1..Len(stored) -> 1..Len(stored)] :
       /\ \A i, j \in 1..Len(stored) : i # j => p[i] # p[j]
       /\ \A i \in 1..Len(stored) : rows[i] = RowToMessage(stored[p[i]])

\* C29: listMessages returns the not-found value exactly when the id is
\* unknown or the conversation is another user's; otherwise it returns all
\* the messages of the conversation, timestamps ascending.
C29_ListMessagesNotFoundOrSorted ==
  [][ListStep =>
       LET c == repo'.asked[1]
           userId == repo'.asked[2]
           mine == c \in DOMAIN repo.conversations /\ repo.conversations[c] = userId
       IN  /\ repo'.result.found <=> mine
           /\ ~mine => repo'.result = NotFound
           /\ mine => /\ SameMessages(repo'.result.rows, repo.messages[c])
                      /\ Ascending(Timestamps(repo'.result.rows))]_vars

\* The owner has listed a conversation whose two messages were stored with
\* the later timestamp first, and got them in ascending order, while the
\* other conversation is another user's.
C29_Witness ==
  /\ repo.asked = <<"c1", "u1">>
  /\ repo.result.found
  /\ Timestamps(repo.messages["c1"]) = <<1, 0>>
  /\ Timestamps(repo.result.rows) = <<0, 1>>
  /\ "c2" \in DOMAIN repo.conversations
  /\ repo.conversations["c2"] = "u2"


\* --------------------------------------------------- the order of a turn
\* C30: a completed turn has added one user row and then one assistant row
\* to the conversation, and the list done carries shows the user message of
\* the turn before its assistant message.
C30_UserThenAssistant ==
  pc = "done" =>
    LET msgs == written[Len(written)].messages IN
      /\ Len(messages) = 2
      /\ messages[1].role = "user"
      /\ messages[2].role = "assistant"
      /\ Len(msgs) = 2
      /\ msgs[1].role = "user"
      /\ msgs[2].role = "assistant"


\* ------------------------------------------------ the two paths of a line
\* C31: when sendToCube returns, the gate, the assistant text, the
\* aggregated metadata and the units handed downstream are those of the same
\* body with a newline after its last line, that is with the last line
\* handled in the loop.
C31_TrailingPathEqualsLoopPath ==
  (body.fixed /\ pc = "returned") => Locals = RunAlone(body.text \o <<NL>>)


\* ------------------------------------------- the stream and the sidebar
\* C32: a delta or an event changes no message but the placeholder of its
\* turn: the messages before the last one stay, and once the placeholder has
\* left the list (another conversation loaded, the chat cleared) the whole
\* list stays.
C32_EnvelopesTouchOnlyThePlaceholder ==
  [][(DeltaStep \/ EventStep) =>
       /\ Len(client'.messages) = Len(client.messages)
       /\ \A i \in 1..(Len(client.messages) - 1) :
            client'.messages[i] = client.messages[i]
       /\ ~client.own => client'.messages = client.messages]_vars


\* ------------------------------------------------------------- ownership
\* C33: a chat request of a user who does not own the conversation it names
\* adds no message to that conversation.
C33_OnlyTheOwnerAppends ==
  owner # UserId => messages = <<>>


\* -------------------------------------------------------- the token cache
\* C34: the token getToken returns is one exchanged for the external id it
\* was called with.
C34_TokenBelongsToItsId ==
  tokens.result # NoToken => tokens.result[1] = tokens.asked


\* ------------------------------------------------------ the end of thinking
\* C35: once done has been processed nothing non-blank is left in the
\* pending-thinking buffer of the turn's message, and every thinking step it
\* has recorded is the value of one of its thinking segments.
C35_NoThinkingLeftBehind ==
  client.pc = "ended" =>
    /\ IsBlank(InFlight.thinkingBuffer)
    /\ \A i \in 1..Len(InFlight.thinkingSteps) :
         \E j \in 1..Len(InFlight.segments) :
           InFlight.segments[j] = [type |-> "thinking", value |-> InFlight.thinkingSteps[i]]


\* ------------------------------------------------------ the rendered text
TextValues(segments) ==
  LET isText(seg) == seg.type = "text"
      texts == SelectSeq(segments, isText)
  IN  [i \in 1..Len(texts) |-> texts[i].value]

\* C36: while the placeholder of a turn is in flight its content is the
\* values of its text segments put together in order, and that is the
\* fragments of the deltas received in the turn put together in order.
C36_ContentIsTheTextSegments ==
  (client.pc # "idle" /\ client.own) =>
    /\ InFlight.content = ConcatAll(TextValues(InFlight.segments))
    /\ InFlight.content = ConcatAll(client.deltas)

\* Two deltas with a tool call between them.
C36_Witness ==
  /\ client.pc = "stream"
  /\ client.own
  /\ client.deltas = <<"a", "b">>
  /\ InFlight.content = "ab"
  /\ Len(InFlight.segments) = 3
  /\ InFlight.segments[2].type = "toolCall"


\* -------------------------------------------------- the conversation id
SendStep == client.pc = "idle" /\ client'.pc = "stream"
FinishStep == client.pc = "ended" /\ client'.pc = "idle"

\* C37: the step that processes done leaves the client's conversation id
\* equal to the one done carries, and the end of the turn keeps it; a chat
\* request is sent with the client's conversation id of that moment; the
\* server has made a new conversation for the turn exactly when its request
\* carried no id, and otherwise has used the one the request named.
C37_DoneSetsTheConversationId ==
  [][/\ DoneStep =>
          /\ client'.conversationId = client'.evt.conversationId
          /\ (repo'.conversations # repo.conversations) <=> (client.request = "")
          /\ client.request # "" => client'.evt.conversationId = client.request
     /\ FinishStep => client'.conversationId = client.conversationId
     /\ SendStep => client'.request = client.conversationId]_vars

\* The second turn of a chat: its request names the conversation the server
\* made for the first, and no other conversation has been made.
C37_Witness ==
  /\ client.pc = "ended"
  /\ Len(client.messages) = 4
  /\ client.request = "c1"
  /\ client.conversationId = "c1"
  /\ client.evt.conversationId = "c1"
  /\ DOMAIN repo.conversations = {"c1"}


\* ------------------------------------------------------ the round trip
JsUndefined == [kind |-> "undefined"]
\* A message as it was given, in the shape of listMessages' result: a
\* metadata object as it is, no metadata as an absent field.
AsGiven(msg) ==
  [role |-> msg.role, content |-> msg.content, timestamp |-> msg.timestamp,
   metadata |-> IF msg.metadata.def THEN JsObject(msg.metadata.obj) ELSE JsUndefined]

\* C38: what listMessages returns for a conversation are the messages given
\* to addMessage for it, each once, with their role, content, timestamp and
\* metadata, a message given without metadata coming back without it.
C38_StorageRoundTrip ==
  [][(ListStep /\ repo'.result.found) =>
       LET given == repo.given[repo'.asked[1]]
           rows == repo'.result.rows
       IN  /\ Len(rows) = Len(given)
           /\ \E p \in [1..Len(given) -> 1..Len(given)] :
                /\ \A i, j \in 1..Len(given) : i # j => p[i] # p[j]
                /\ \A i \in 1..Len(given) : rows[i] = AsGiven(given[p[i]])]_vars

====
